---- MODULE Spec2Model ----
(***************************************************************************)
(* A model of pyspark.ml.deepspeed.DeepspeedTorchDistributor: the          *)
(* construction of the torchrun command line and the script-mode run       *)
(* (validate, dispatch, keyword check, build, spawn, wait).                *)
(*                                                                         *)
(* One thread of control calls the distributor.  A call of a static       *)
(* helper is one step; a call of run() is a sequence of steps followed by  *)
(* pc, because the launcher process it spawns exits on its own.           *)
(***************************************************************************)
EXTENDS Integers, Sequences, FiniteSets, TLC

VARIABLES
    self,      \* the distributor's fields after __init__
    ctor,      \* the arguments __init__ was called with
    environ,   \* os.environ: MASTER_ADDR, MASTER_PORT, RANK
    fs,        \* the files that exist: a set of [path, data]
    pc,        \* where the calling thread is
    call,      \* the method called and its arguments
    passed,    \* the arguments the dispatch handed to the wrapper
    cmd,       \* the command built by the run() in progress
    proc,      \* the launcher process of the run() in progress
    ret        \* what the call returned or raised

vars == <<self, ctor, environ, fs, pc, call, passed, cmd, proc, ret>>

----------------------------------------------------------------------------
(* Bounds of the model.                                                    *)

MaxGpus == 2
MaxNodes == 2
MaxArgs == 2
MaxTempFiles == 2
MaxExitCode == 2

----------------------------------------------------------------------------
(* Python values.  Every value is a record of the same shape; t is the     *)
(* type tag, and only the field of that type is meaningful.                *)

PyNone == [t |-> "none", i |-> 0, s |-> "", d |-> <<>>]
PyInt(n) == [t |-> "int", i |-> n, s |-> "", d |-> <<>>]
PyStr(x) == [t |-> "str", i |-> 0, s |-> x, d |-> <<>>]
PyFn(name) == [t |-> "function", i |-> 0, s |-> name, d |-> <<>>]
PyDict(items) == [t |-> "dict", i |-> 0, s |-> "", d |-> items]

\* str(v) for the values above
Str(v) ==
    CASE v.t = "int" -> ToString(v.i)
      [] v.t = "str" -> v.s
      [] v.t = "none" -> "None"
      [] v.t = "function" -> "<function " \o v.s \o ">"
      [] OTHER -> "{...}"

\* list(map(str, args))
RECURSIVE MapStr(_)
MapStr(args) ==
    IF args = <<>> THEN <<>> ELSE <<Str(Head(args))>> \o MapStr(Tail(args))

\* json.dumps of a dict of string keys and integer values, default separators
RECURSIVE JsonItems(_)
JsonItems(items) ==
    IF items = <<>> THEN ""
    ELSE "\"" \o Head(items).k \o "\": " \o ToString(Head(items).v)
         \o (IF Tail(items) = <<>> THEN "" ELSE ", " \o JsonItems(Tail(items)))

JsonDumps(v) == "{" \o JsonItems(v.d) \o "}"

\* list.pop() of the last element, as a value
Pop(s) == SubSeq(s, 1, Len(s) - 1)

\* sys.executable
SysExecutable == "/usr/bin/python3"

----------------------------------------------------------------------------
(* The environment and the file system.                                    *)

Unset == [set |-> FALSE, v |-> ""]
EnvVal(x) == [set |-> TRUE, v |-> x]

\* tempfile.NamedTemporaryFile(suffix=".json") picks a name that is not taken
TempName(n) == "/tmp/tmp" \o ToString(n) \o ".json"
TempNames == {TempName(n) : n \in 1..MaxTempFiles}

Exists(files, path) == \E f \in files : f.path = path
FreeTempNames(files) == {p \in TempNames : ~Exists(files, p)}

\* os.path.exists(path)
ScriptPath == "train.py"
MissingPath == "missing.py"
PathExists(files, path) == Exists(files, path)

----------------------------------------------------------------------------
(* Results of calls.                                                       *)

NoRet == [status |-> "none", exc |-> "", code |-> 0,
          cmd |-> <<>>, ppn |-> 0, path |-> ""]
Returned(tokens, ppn, path) ==
    [status |-> "ok", exc |-> "", code |-> 0,
     cmd |-> tokens, ppn |-> ppn, path |-> path]
Raised(exc, code) ==
    [status |-> "raised", exc |-> exc, code |-> code,
     cmd |-> <<>>, ppn |-> 0, path |-> ""]

\* The arguments of a call: fn is the method called
Call(fn, train_object, args, kwargs, local_mode, num_processes) ==
    [fn |-> fn, train_object |-> train_object, args |-> args,
     kwargs |-> kwargs, local_mode |-> local_mode,
     num_processes |-> num_processes]
NoCall == Call("", PyNone, <<>>, {}, FALSE, 0)

NoPassed == [train_path |-> "", args |-> <<>>, kwargs |-> {}]
NoProc == [state |-> "none", code |-> 0, argv |-> <<>>, spawns |-> 0]

----------------------------------------------------------------------------
(* TorchDistributor._get_torchrun_args(local_mode, num_processes)          *)

get_torchrun_args(local_mode, num_processes, env) ==
    IF local_mode
    THEN [raised |-> FALSE,
          args |-> <<"--standalone", "--nnodes=1">>,
          ppn |-> num_processes]
    ELSE IF ~(env.MASTER_ADDR.set /\ env.MASTER_PORT.set /\ env.RANK.set)
    THEN [raised |-> TRUE, args |-> <<>>, ppn |-> 0]
    ELSE [raised |-> FALSE,
          args |-> <<"--nnodes=" \o ToString(num_processes),
                     "--node_rank=" \o env.RANK.v,
                     "--rdzv_endpoint=" \o env.MASTER_ADDR.v \o ":"
                         \o env.MASTER_PORT.v,
                     "--rdzv_id=0">>,
          ppn |-> 1]

----------------------------------------------------------------------------
(* A variant of __init__ that forgets the number of nodes.                 *)

init_distributor_gpus_only(num_gpus, nnodes, local_mode, use_gpu, deepspeed_config) ==
    [num_processes |-> num_gpus,
     local_mode |-> local_mode,
     use_gpu |-> use_gpu,
     deepspeed_config |-> deepspeed_config,
     cleanup_deepspeed_conf |-> FALSE]

----------------------------------------------------------------------------
(* DeepspeedTorchDistributor.__init__                                      *)

init_distributor(num_gpus, nnodes, local_mode, use_gpu, deepspeed_config) ==
    [num_processes |-> num_gpus * nnodes,
     local_mode |-> local_mode,
     use_gpu |-> use_gpu,
     deepspeed_config |-> deepspeed_config,
     cleanup_deepspeed_conf |-> FALSE]

\* TorchDistributor's input_params: the fields the wrapper reads
input_params(obj) ==
    [local_mode |-> obj.local_mode,
     num_processes |-> obj.num_processes,
     deepspeed_config |-> obj.deepspeed_config]

----------------------------------------------------------------------------
(* A variant of _get_deepspeed_config_path that creates the file but never *)
(* dumps the mapping into it.                                              *)

get_deepspeed_config_path_no_dump(deepspeed_config, files, name) ==
    IF deepspeed_config.t = "dict"
    THEN [path |-> name, fs |-> files \cup {[path |-> name, data |-> ""]}]
    ELSE IF deepspeed_config = PyNone
    THEN [path |-> "", fs |-> files]
    ELSE [path |-> deepspeed_config.s, fs |-> files]

----------------------------------------------------------------------------
(* DeepspeedTorchDistributor._get_deepspeed_config_path                    *)
(* name is the name NamedTemporaryFile picks when it is called.            *)

get_deepspeed_config_path(deepspeed_config, files, name) ==
    IF deepspeed_config.t = "dict"
    THEN [path |-> name,
          fs |-> files \cup {[path |-> name,
                              data |-> JsonDumps(deepspeed_config)]}]
    ELSE IF deepspeed_config = PyNone
    THEN [path |-> "", fs |-> files]
    ELSE [path |-> deepspeed_config.s, fs |-> files]

----------------------------------------------------------------------------
(* Variants of _create_torchrun_command with one slip each, used to see    *)
(* that the properties below depend on the builder.                        *)

\* pops the enable flag too when the path is empty
create_torchrun_command_pop3(params, train_path, args, env, files, name) ==
    LET resolved == get_deepspeed_config_path(params.deepspeed_config,
                                              files, name)
        topo == get_torchrun_args(params.local_mode, params.num_processes,
                                  env)
        command_to_run ==
            <<SysExecutable, "-m", "torch.distributed.run">>
            \o topo.args
            \o <<"--nproc_per_node=" \o ToString(topo.ppn)>>
            \o <<train_path>>
            \o MapStr(args)
            \o <<"-deepspeed", "--deepspeed_config", resolved.path>>
    IN  IF topo.raised
        THEN [raised |-> TRUE, cmd |-> <<>>, fs |-> resolved.fs]
        ELSE [raised |-> FALSE,
              cmd |-> IF resolved.path = ""
                      THEN Pop(Pop(Pop(command_to_run)))
                      ELSE command_to_run,
              fs |-> resolved.fs]

\* puts the extra arguments before the entry point
create_torchrun_command_swapped(params, train_path, args, env, files, name) ==
    LET resolved == get_deepspeed_config_path(params.deepspeed_config,
                                              files, name)
        topo == get_torchrun_args(params.local_mode, params.num_processes,
                                  env)
        command_to_run ==
            <<SysExecutable, "-m", "torch.distributed.run">>
            \o topo.args
            \o <<"--nproc_per_node=" \o ToString(topo.ppn)>>
            \o MapStr(args)
            \o <<train_path>>
            \o <<"-deepspeed", "--deepspeed_config", resolved.path>>
    IN  IF topo.raised
        THEN [raised |-> TRUE, cmd |-> <<>>, fs |-> resolved.fs]
        ELSE [raised |-> FALSE,
              cmd |-> IF resolved.path = ""
                      THEN Pop(Pop(command_to_run))
                      ELSE command_to_run,
              fs |-> resolved.fs]

\* asks the resolver for the other mode
create_torchrun_command_flipped(params, train_path, args, env, files, name) ==
    LET resolved == get_deepspeed_config_path(params.deepspeed_config,
                                              files, name)
        topo == get_torchrun_args(~params.local_mode, params.num_processes,
                                  env)
        command_to_run ==
            <<SysExecutable, "-m", "torch.distributed.run">>
            \o topo.args
            \o <<"--nproc_per_node=" \o ToString(topo.ppn)>>
            \o <<train_path>>
            \o MapStr(args)
            \o <<"-deepspeed", "--deepspeed_config", resolved.path>>
    IN  IF topo.raised
        THEN [raised |-> TRUE, cmd |-> <<>>, fs |-> resolved.fs]
        ELSE [raised |-> FALSE,
              cmd |-> IF resolved.path = ""
                      THEN Pop(Pop(command_to_run))
                      ELSE command_to_run,
              fs |-> resolved.fs]

\* writes the total process count into the per-node flag
create_torchrun_command_total(params, train_path, args, env, files, name) ==
    LET resolved == get_deepspeed_config_path(params.deepspeed_config,
                                              files, name)
        topo == get_torchrun_args(params.local_mode, params.num_processes,
                                  env)
        command_to_run ==
            <<SysExecutable, "-m", "torch.distributed.run">>
            \o topo.args
            \o <<"--nproc_per_node=" \o ToString(params.num_processes)>>
            \o <<train_path>>
            \o MapStr(args)
            \o <<"-deepspeed", "--deepspeed_config", resolved.path>>
    IN  IF topo.raised
        THEN [raised |-> TRUE, cmd |-> <<>>, fs |-> resolved.fs]
        ELSE [raised |-> FALSE,
              cmd |-> IF resolved.path = ""
                      THEN Pop(Pop(command_to_run))
                      ELSE command_to_run,
              fs |-> resolved.fs]

\* fills in a rank, address or port that the environment lacks
create_torchrun_command_defaulted(params, train_path, args, env, files, name) ==
    LET resolved == get_deepspeed_config_path(params.deepspeed_config,
                                              files, name)
        filled ==
            [MASTER_ADDR |-> IF env.MASTER_ADDR.set THEN env.MASTER_ADDR
                             ELSE [set |-> TRUE, v |-> "127.0.0.1"],
             MASTER_PORT |-> IF env.MASTER_PORT.set THEN env.MASTER_PORT
                             ELSE [set |-> TRUE, v |-> "2000"],
             RANK |-> IF env.RANK.set THEN env.RANK
                      ELSE [set |-> TRUE, v |-> "0"]]
        topo == get_torchrun_args(params.local_mode, params.num_processes,
                                  filled)
        command_to_run ==
            <<SysExecutable, "-m", "torch.distributed.run">>
            \o topo.args
            \o <<"--nproc_per_node=" \o ToString(topo.ppn)>>
            \o <<train_path>>
            \o MapStr(args)
            \o <<"-deepspeed", "--deepspeed_config", resolved.path>>
    IN  [raised |-> FALSE,
         cmd |-> IF resolved.path = ""
                 THEN Pop(Pop(command_to_run))
                 ELSE command_to_run,
         fs |-> resolved.fs]

----------------------------------------------------------------------------
(* DeepspeedTorchDistributor._create_torchrun_command                      *)

create_torchrun_command(params, train_path, args, env, files, name) ==
    LET resolved == get_deepspeed_config_path(params.deepspeed_config,
                                              files, name)
        deepspeed_config_path == resolved.path
        topo == get_torchrun_args(params.local_mode, params.num_processes,
                                  env)
        args_string == MapStr(args)
        command_to_run ==
            <<SysExecutable, "-m", "torch.distributed.run">>
            \o topo.args
            \o <<"--nproc_per_node=" \o ToString(topo.ppn)>>
            \o <<train_path>>
            \o args_string
            \o <<"-deepspeed", "--deepspeed_config", deepspeed_config_path>>
    IN  IF topo.raised
        THEN [raised |-> TRUE, cmd |-> <<>>, fs |-> resolved.fs]
        ELSE [raised |-> FALSE,
              cmd |-> IF deepspeed_config_path = ""
                      THEN Pop(Pop(command_to_run))
                      ELSE command_to_run,
              fs |-> resolved.fs]

----------------------------------------------------------------------------
(* The inputs the calls are made with.                                     *)

ArgVals == {PyInt(5), PyStr("--arg1")}
ArgSeqs == UNION {[1..n -> ArgVals] : n \in 0..MaxArgs}
KwargSets == {{}, {[k |-> "lr", v |-> PyInt(1)]},
              {[k |-> "spark_dataframe", v |-> PyNone]}}
TrainObjects == {PyStr(ScriptPath), PyStr(MissingPath), PyFn("pythagoras")}
Configs == {PyNone, PyStr(""), PyStr("cfg.json"), PyDict(<<>>),
            PyDict(<<[k |-> "train_batch_size", v |-> 8],
                     [k |-> "steps", v |-> 1]>>)}
EnvStates ==
    [MASTER_ADDR : {Unset, EnvVal("127.0.0.1")},
     MASTER_PORT : {Unset, EnvVal("2000")},
     RANK : {Unset, EnvVal(""), EnvVal("1")}]

\* The name NamedTemporaryFile would pick: any free one; "" when none is made
NamesFor(deepspeed_config, files) ==
    IF deepspeed_config.t = "dict" THEN FreeTempNames(files) ELSE {""}

----------------------------------------------------------------------------
(* The state after DeepspeedTorchDistributor(...) has been constructed.    *)

Init ==
    /\ \E num_gpus \in 1..MaxGpus, nnodes \in 1..MaxNodes,
          local_mode \in BOOLEAN, deepspeed_config \in Configs :
          /\ self = init_distributor(num_gpus, nnodes, local_mode, FALSE,
                                     deepspeed_config)
          /\ ctor = [num_gpus |-> num_gpus, nnodes |-> nnodes]
    /\ environ \in EnvStates
    /\ fs = {[path |-> ScriptPath, data |-> "print(1)"]}
    /\ pc = "idle"
    /\ call = NoCall
    /\ passed = NoPassed
    /\ cmd = <<>>
    /\ proc = NoProc
    /\ ret = NoRet

----------------------------------------------------------------------------
(* Direct calls of the static helpers, as the unit tests make them.        *)

StartCall(c) ==
    /\ pc = "idle"
    /\ call' = c
    /\ UNCHANGED <<passed, cmd, proc>>

\* test helper _get_env_variables_distributed: unset or empty variables get
\* their defaults
get_env_var(value, default_value) ==
    IF value.set /\ value.v # "" THEN value ELSE EnvVal(default_value)

GetEnvVariablesDistributed ==
    /\ pc = "idle"
    /\ environ' =
          [MASTER_ADDR |-> get_env_var(environ.MASTER_ADDR, "127.0.0.1"),
           MASTER_PORT |-> get_env_var(environ.MASTER_PORT, "2000"),
           RANK |-> get_env_var(environ.RANK, "0")]
    /\ UNCHANGED <<self, ctor, fs, pc, call, passed, cmd, proc, ret>>

CallGetTorchrunArgs ==
    \E local_mode \in BOOLEAN, num_processes \in 1..(MaxGpus * MaxNodes) :
        LET r == get_torchrun_args(local_mode, num_processes, environ)
        IN  /\ StartCall(Call("_get_torchrun_args", PyNone, <<>>, {},
                              local_mode, num_processes))
            /\ ret' = IF r.raised THEN Raised("KeyError", 0)
                      ELSE Returned(r.args, r.ppn, "")
            /\ pc' = "returned"
            /\ UNCHANGED <<self, ctor, environ, fs>>

CallGetDeepspeedConfigPath ==
    \E name \in NamesFor(self.deepspeed_config, fs) :
        LET r == get_deepspeed_config_path(self.deepspeed_config, fs, name)
        IN  /\ StartCall(Call("_get_deepspeed_config_path", PyNone, <<>>, {},
                              self.local_mode, self.num_processes))
            /\ ret' = Returned(<<>>, 0, r.path)
            /\ fs' = r.fs
            /\ pc' = "returned"
            /\ UNCHANGED <<self, ctor, environ>>

CallCreateTorchrunCommand ==
    \E train_path \in {ScriptPath, MissingPath}, args \in ArgSeqs,
       name \in NamesFor(self.deepspeed_config, fs) :
        LET r == create_torchrun_command(input_params(self), train_path, args,
                                         environ, fs, name)
        IN  /\ StartCall(Call("_create_torchrun_command", PyStr(train_path),
                              args, {}, self.local_mode, self.num_processes))
            /\ ret' = IF r.raised THEN Raised("KeyError", 0)
                      ELSE Returned(r.cmd, 0, "")
            /\ fs' = r.fs
            /\ pc' = "returned"
            /\ UNCHANGED <<self, ctor, environ>>

----------------------------------------------------------------------------
(* DeepspeedTorchDistributor.run, step by step.                            *)

\* a variant of run that rejects keyword arguments before it looks at the
\* entry point
RunValidate_kwargs_first ==
    \E train_object \in TrainObjects, args \in ArgSeqs, kwargs \in KwargSets :
        /\ StartCall(Call("run", train_object, args, kwargs,
                          self.local_mode, self.num_processes))
        /\ IF kwargs # {}
           THEN /\ ret' = Raised("ValueError", 0)
                /\ pc' = "returned"
           ELSE IF train_object.t = "str"
           THEN IF ~PathExists(fs, train_object.s)
                THEN /\ ret' = Raised("FileNotFoundError", 0)
                     /\ pc' = "returned"
                ELSE /\ ret' = NoRet
                     /\ pc' = "dispatch"
           ELSE /\ ret' = Raised("RuntimeError", 0)
                /\ pc' = "returned"
        /\ UNCHANGED <<self, ctor, environ, fs>>

\* a variant of the validation that never looks whether the path exists
RunValidate_no_exists_check ==
    \E train_object \in TrainObjects, args \in ArgSeqs, kwargs \in KwargSets :
        /\ StartCall(Call("run", train_object, args, kwargs,
                          self.local_mode, self.num_processes))
        /\ IF train_object.t = "str"
           THEN /\ ret' = NoRet
                /\ pc' = "dispatch"
           ELSE /\ ret' = Raised("RuntimeError", 0)
                /\ pc' = "returned"
        /\ UNCHANGED <<self, ctor, environ, fs>>

\* run, lines 138-145: the entry point must be a string naming a file
RunValidate ==
    \E train_object \in TrainObjects, args \in ArgSeqs, kwargs \in KwargSets :
        /\ StartCall(Call("run", train_object, args, kwargs,
                          self.local_mode, self.num_processes))
        /\ IF train_object.t = "str"
           THEN IF ~PathExists(fs, train_object.s)
                THEN /\ ret' = Raised("FileNotFoundError", 0)
                     /\ pc' = "returned"
                ELSE /\ ret' = NoRet
                     /\ pc' = "dispatch"
           ELSE /\ ret' = Raised("RuntimeError", 0)
                /\ pc' = "returned"
        /\ UNCHANGED <<self, ctor, environ, fs>>

\* How Python binds
\*   _run_distributed_training(fn, train_object, spark_dataframe=None,
\*                             *args, **kwargs)
\* to the callee's parameters (fn, train_object, spark_dataframe, *args,
\* **kwargs), and what the callee then hands to fn: the keyword names
\* spark_dataframe, so a first extra positional argument, which lands on the
\* same parameter, or a second spark_dataframe keyword is a TypeError.
bind_distributed(args, kwargs) ==
    IF \E kw \in kwargs : kw.k = "spark_dataframe"
    THEN [raised |-> TRUE, args |-> <<>>, kwargs |-> {}]
    ELSE IF Len(args) >= 1
    THEN [raised |-> TRUE, args |-> <<>>, kwargs |-> {}]
    ELSE [raised |-> FALSE, args |-> args, kwargs |-> kwargs]

\* _run_local_training(fn, train_object, *args, **kwargs)
bind_local(args, kwargs) ==
    [raised |-> FALSE, args |-> args, kwargs |-> kwargs]

\* run, lines 147-151: local or distributed
RunDispatch ==
    /\ pc = "dispatch"
    /\ LET b == IF self.local_mode
                THEN bind_local(call.args, call.kwargs)
                ELSE bind_distributed(call.args, call.kwargs)
       IN  IF b.raised
           THEN /\ ret' = Raised("TypeError", 0)
                /\ pc' = "returned"
                /\ UNCHANGED passed
           ELSE /\ passed' = [train_path |-> call.train_object.s,
                              args |-> b.args, kwargs |-> b.kwargs]
                /\ pc' = "wrapper"
                /\ UNCHANGED ret
    /\ UNCHANGED <<self, ctor, environ, fs, call, cmd, proc>>

\* a variant of the wrapper's first step that lets keyword arguments through
RunTrainingCheckKwargs_dropped ==
    /\ pc = "wrapper"
    /\ pc' = "build"
    /\ UNCHANGED <<self, ctor, environ, fs, call, passed, cmd, proc, ret>>

\* _run_training_on_pytorch_file, lines 123-126
RunTrainingCheckKwargs ==
    /\ pc = "wrapper"
    /\ IF passed.kwargs # {}
       THEN /\ ret' = Raised("ValueError", 0)
            /\ pc' = "returned"
       ELSE /\ pc' = "build"
            /\ UNCHANGED ret
    /\ UNCHANGED <<self, ctor, environ, fs, call, passed, cmd, proc>>

\* _run_training_on_pytorch_file, lines 128-131
RunTrainingBuildCommand ==
    /\ pc = "build"
    /\ \E name \in NamesFor(self.deepspeed_config, fs) :
          LET r == create_torchrun_command(input_params(self),
                                           passed.train_path, passed.args,
                                           environ, fs, name)
          IN  /\ fs' = r.fs
              /\ IF r.raised
                 THEN /\ ret' = Raised("KeyError", 0)
                      /\ pc' = "returned"
                      /\ UNCHANGED cmd
                 ELSE /\ cmd' = r.cmd
                      /\ pc' = "execute"
                      /\ UNCHANGED ret
    /\ UNCHANGED <<self, ctor, environ, call, passed, proc>>

\* _run_training_on_pytorch_file, lines 132-134: _execute_command starts the
\* launcher process
ExecuteCommandSpawn ==
    /\ pc = "execute"
    /\ proc' = [state |-> "running", code |-> 0, argv |-> cmd,
                spawns |-> proc.spawns + 1]
    /\ pc' = "wait"
    /\ UNCHANGED <<self, ctor, environ, fs, call, passed, cmd, ret>>

\* the launcher process exits with some code
ProcessExit ==
    /\ proc.state = "running"
    /\ \E k \in 0..MaxExitCode :
          proc' = [proc EXCEPT !.state = "exited", !.code = k]
    /\ UNCHANGED <<self, ctor, environ, fs, pc, call, passed, cmd, ret>>

\* what _execute_command does once the process it waits for has exited
execute_command_result(returncode) ==
    IF returncode # 0
    THEN Raised("ExecutionError", returncode)
    ELSE Returned(<<>>, 0, "")

\* a variant in which a failed launch is started once more
ExecuteCommandWait_retried ==
    /\ pc = "wait"
    /\ proc.state = "exited"
    /\ IF proc.code # 0 /\ proc.spawns < 2
       THEN /\ proc' = [proc EXCEPT !.state = "running", !.code = 0,
                                    !.spawns = @ + 1]
            /\ UNCHANGED <<pc, ret>>
       ELSE /\ ret' = IF proc.code # 0
                      THEN Raised("ExecutionError", proc.code)
                      ELSE Returned(<<>>, 0, "")
            /\ pc' = "returned"
            /\ UNCHANGED proc
    /\ UNCHANGED <<self, ctor, environ, fs, call, passed, cmd>>

\* a variant in which the wrapper catches the executor's error
ExecuteCommandWait_swallowed ==
    /\ pc = "wait"
    /\ proc.state = "exited"
    /\ ret' = Returned(<<>>, 0, "")
    /\ pc' = "returned"
    /\ UNCHANGED <<self, ctor, environ, fs, call, passed, cmd, proc>>

\* _execute_command returns or raises; nothing on the way up catches it
ExecuteCommandWait ==
    /\ pc = "wait"
    /\ proc.state = "exited"
    /\ ret' = execute_command_result(proc.code)
    /\ pc' = "returned"
    /\ UNCHANGED <<self, ctor, environ, fs, call, passed, cmd, proc>>

\* the caller takes the result and goes on to its next call
CallerContinues ==
    /\ pc = "returned"
    /\ pc' = "idle"
    /\ call' = NoCall
    /\ passed' = NoPassed
    /\ cmd' = <<>>
    /\ proc' = NoProc
    /\ ret' = NoRet
    /\ UNCHANGED <<self, ctor, environ, fs>>

Next ==
    \/ GetEnvVariablesDistributed
    \/ CallGetTorchrunArgs
    \/ CallGetDeepspeedConfigPath
    \/ CallCreateTorchrunCommand
    \/ RunValidate
    \/ RunDispatch
    \/ RunTrainingCheckKwargs
    \/ RunTrainingBuildCommand
    \/ ExecuteCommandSpawn
    \/ ProcessExit
    \/ ExecuteCommandWait
    \/ CallerContinues

Spec == Init /\ [][Next]_vars

----------------------------------------------------------------------------
(* What the properties below speak about: a command that has been built,   *)
(* by a direct call of _create_torchrun_command or inside a run(), and the *)
(* inputs it was built from.                                               *)

BuiltByCall ==
    pc = "returned" /\ call.fn = "_create_torchrun_command"
        /\ ret.status = "ok"
BuiltByRun == call.fn = "run" /\ cmd # <<>>
Built == BuiltByCall \/ BuiltByRun
BuiltCmd == IF call.fn = "run" THEN cmd ELSE ret.cmd
BuiltTrainPath ==
    IF call.fn = "run" THEN passed.train_path ELSE call.train_object.s
BuiltArgs == IF call.fn = "run" THEN passed.args ELSE call.args

\* the flags the topology resolver returns for this distributor
Topo == get_torchrun_args(self.local_mode, self.num_processes, environ)
\* the tokens up to and including the last extra argument
HeadLen == 3 + Len(Topo.args) + 2 + Len(BuiltArgs)

ConfigGiven ==
    \/ self.deepspeed_config.t = "dict"
    \/ self.deepspeed_config.t = "str" /\ self.deepspeed_config.s # ""
\* c is the path the configuration resolves to
ResolvedIs(c) ==
    CASE self.deepspeed_config.t = "str" -> c = self.deepspeed_config.s
      [] self.deepspeed_config.t = "dict" ->
            c \in TempNames /\ Exists(fs, c)
      [] OTHER -> c = ""

SpecEnableFlag == "--deepspeed"
CodeEnableFlag == "-deepspeed"
Tokens(c) == {c[i] : i \in 1..Len(c)}

----------------------------------------------------------------------------
(* C1: with a non-empty resolved configuration path c, the command ends    *)
(* with exactly "--deepspeed", "--deepspeed_config", c, after the entry    *)
(* point and after all extra arguments.                                    *)

C1_TrailingConfigGroup ==
    (Built /\ ConfigGiven) =>
        /\ Len(BuiltCmd) = HeadLen + 3
        /\ BuiltCmd[HeadLen + 1] = SpecEnableFlag
        /\ BuiltCmd[HeadLen + 2] = "--deepspeed_config"
        /\ ResolvedIs(BuiltCmd[HeadLen + 3])

----------------------------------------------------------------------------
(* C2, as claimed: with an empty resolved configuration path the command   *)
(* holds no enable flag, no "--deepspeed_config" and no empty token, and   *)
(* its last token is the last extra argument (or the entry point).         *)

----------------------------------------------------------------------------
(* C3: the command starts with the interpreter, "-m",                      *)
(* "torch.distributed.run", then the resolver's flags in their order, then *)
(* "--nproc_per_node=<processes_per_node>", then the entry point, then     *)
(* every extra argument as a string, in the caller's order.                *)

C3_CommandHead ==
    Built =>
        LET k == Len(Topo.args) IN
        /\ ~Topo.raised
        /\ Len(BuiltCmd) >= HeadLen
        /\ BuiltCmd[1] = SysExecutable
        /\ BuiltCmd[2] = "-m"
        /\ BuiltCmd[3] = "torch.distributed.run"
        /\ \A i \in 1..k : BuiltCmd[3 + i] = Topo.args[i]
        /\ BuiltCmd[4 + k] = "--nproc_per_node=" \o ToString(Topo.ppn)
        /\ BuiltCmd[5 + k] = BuiltTrainPath
        /\ \A i \in 1..Len(BuiltArgs) :
              BuiltCmd[5 + k + i] = Str(BuiltArgs[i])

C3_Witness ==
    /\ BuiltByCall
    /\ ~self.local_mode
    /\ call.args = <<PyStr("--arg1"), PyInt(5)>>
    /\ ret.cmd[10] = "--arg1"
    /\ ret.cmd[11] = "5"

----------------------------------------------------------------------------
(* C4: in local mode the resolver returns exactly "--standalone",          *)
(* "--nnodes=1" and processes_per_node = P, whatever the environment       *)
(* holds; the command builder passes them on.                              *)

ResolverReturned == pc = "returned" /\ call.fn = "_get_torchrun_args"

C4_LocalTopology ==
    /\ (ResolverReturned /\ call.local_mode) =>
          /\ ret.status = "ok"
          /\ ret.cmd = <<"--standalone", "--nnodes=1">>
          /\ ret.ppn = call.num_processes
    /\ (pc = "returned" /\ call.fn = "_create_torchrun_command"
            /\ self.local_mode) => ret.status = "ok"
    /\ (Built /\ self.local_mode) =>
          /\ BuiltCmd[4] = "--standalone"
          /\ BuiltCmd[5] = "--nnodes=1"
          /\ BuiltCmd[6] =
                "--nproc_per_node=" \o ToString(self.num_processes)

C4_Witness ==
    /\ BuiltByCall
    /\ self.local_mode
    /\ self.num_processes = 4
    /\ ~environ.RANK.set
    /\ ~environ.MASTER_ADDR.set
    /\ ret.cmd[6] = "--nproc_per_node=4"

----------------------------------------------------------------------------
(* C5: in distributed mode, with rank r, address a and port p in the       *)
(* environment, the resolver returns exactly "--nnodes=P",                 *)
(* "--node_rank=r", "--rdzv_endpoint=a:p", "--rdzv_id=0" and               *)
(* processes_per_node = 1; the command builder passes them on.             *)

EnvComplete ==
    environ.MASTER_ADDR.set /\ environ.MASTER_PORT.set /\ environ.RANK.set

DistributedFlags(P) ==
    <<"--nnodes=" \o ToString(P),
      "--node_rank=" \o environ.RANK.v,
      "--rdzv_endpoint=" \o environ.MASTER_ADDR.v \o ":"
          \o environ.MASTER_PORT.v,
      "--rdzv_id=0">>

C5_DistributedTopology ==
    /\ (ResolverReturned /\ ~call.local_mode /\ EnvComplete) =>
          /\ ret.status = "ok"
          /\ ret.cmd = DistributedFlags(call.num_processes)
          /\ ret.ppn = 1
    /\ (Built /\ ~self.local_mode) =>
          /\ EnvComplete
          /\ SubSeq(BuiltCmd, 4, 7) = DistributedFlags(self.num_processes)
          /\ BuiltCmd[8] = "--nproc_per_node=1"

C5_Witness ==
    /\ BuiltByCall
    /\ ~self.local_mode
    /\ self.num_processes = 4
    /\ SubSeq(ret.cmd, 4, 8) =
          <<"--nnodes=4", "--node_rank=0", "--rdzv_endpoint=127.0.0.1:2000",
            "--rdzv_id=0", "--nproc_per_node=1">>

----------------------------------------------------------------------------
(* C6: run goes on only for a string naming an existing path; a missing    *)
(* path fails with FileNotFoundError and a non-string with RuntimeError,   *)
(* and in both cases no command is built and no process is spawned.        *)

----------------------------------------------------------------------------
(* C7: when the wrapper is handed a keyword argument it raises ValueError  *)
(* before any command is built and before any process is started.          *)

C7_KeywordArgumentsRejected ==
    (call.fn = "run" /\ passed.kwargs # {}) =>
        /\ pc \in {"wrapper", "returned"}
        /\ pc = "returned" => ret = Raised("ValueError", 0)
        /\ cmd = <<>>
        /\ proc = NoProc

C7_Witness ==
    /\ call.fn = "run"
    /\ self.local_mode
    /\ call.kwargs = {[k |-> "lr", v |-> PyInt(1)]}
    /\ passed.kwargs = call.kwargs
    /\ pc = "returned"
    /\ ret.exc = "ValueError"

----------------------------------------------------------------------------
(* C8: _get_deepspeed_config_path writes a mapping as JSON to a file that  *)
(* did not exist before and returns that file's non-empty path; it returns *)
(* a string as it is, and "" for None, and then touches no file.           *)

ExpectedJson(deepspeed_config) ==
    IF deepspeed_config.d = <<>> THEN "{}"
    ELSE "{\"train_batch_size\": 8, \"steps\": 1}"

C8_ConfigPathResolution ==
    [][(pc = "idle" /\ call'.fn = "_get_deepspeed_config_path") =>
         LET deepspeed_config == self.deepspeed_config IN
         /\ ret'.status = "ok"
         /\ deepspeed_config.t = "dict" =>
               /\ ret'.path # ""
               /\ ~Exists(fs, ret'.path)
               /\ fs' = fs \cup {[path |-> ret'.path,
                                  data |-> ExpectedJson(deepspeed_config)]}
         /\ deepspeed_config.t = "str" =>
               /\ ret'.path = deepspeed_config.s
               /\ fs' = fs
         /\ deepspeed_config.t = "none" =>
               /\ ret'.path = ""
               /\ fs' = fs]_vars

C8_Witness ==
    /\ pc = "returned"
    /\ call.fn = "_get_deepspeed_config_path"
    /\ self.deepspeed_config.t = "dict"
    /\ self.deepspeed_config.d # <<>>
    /\ ret.path = TempName(2)
    /\ Exists(fs, TempName(1))
    /\ [path |-> ret.path, data |-> "{\"train_batch_size\": 8, \"steps\": 1}"]
          \in fs

----------------------------------------------------------------------------
(* C9: for an existing script and any extra positional arguments, in both  *)
(* modes the dispatch hands the script path and the arguments to the       *)
(* wrapper unchanged, and raises no usage or type error of its own.        *)

C9_DispatchPreservesArguments ==
    (call.fn = "run" /\ call.train_object = PyStr(ScriptPath)
        /\ call.kwargs = {} /\ pc # "dispatch") =>
        /\ passed = [train_path |-> ScriptPath, args |-> call.args,
                     kwargs |-> {}]
        /\ ~(ret.status = "raised" /\ ret.exc \in {"TypeError", "ValueError"})

----------------------------------------------------------------------------
(* C10: when the launcher process exits with a nonzero code k the run      *)
(* raises an ExecutionError carrying exactly k; when it exits with 0 the   *)
(* run returns normally.                                                   *)

C10_ExitCodePropagated ==
    (call.fn = "run" /\ pc = "returned" /\ proc.state = "exited") =>
        /\ proc.code # 0 => ret = Raised("ExecutionError", proc.code)
        /\ proc.code = 0 => ret.status = "ok"
        /\ proc.argv = cmd

C10_Witness ==
    /\ call.fn = "run"
    /\ pc = "returned"
    /\ proc.state = "exited"
    /\ proc.code = 2
    /\ ret.exc = "ExecutionError"
    /\ ret.code = 2

----------------------------------------------------------------------------
(* C11: in distributed mode, when the rank, the address or the port is     *)
(* missing from the environment, resolving the topology raises and no      *)
(* command is produced; in local mode it succeeds whatever the environment *)
(* holds.                                                                  *)

BuilderReturned == pc = "returned" /\ call.fn = "_create_torchrun_command"

C11_MissingRendezvousFails ==
    /\ (ResolverReturned /\ ~call.local_mode /\ ~EnvComplete) =>
          ret = Raised("KeyError", 0)
    /\ (BuilderReturned /\ ~self.local_mode /\ ~EnvComplete) =>
          ret = Raised("KeyError", 0)
    /\ (call.fn = "run" /\ ~self.local_mode /\ ~EnvComplete) =>
          /\ cmd = <<>>
          /\ proc = NoProc
          /\ pc \notin {"execute", "wait"}
    /\ (call.fn = "run" /\ ret = Raised("KeyError", 0)) =>
          ~self.local_mode /\ ~EnvComplete
    /\ (ResolverReturned /\ call.local_mode) => ret.status = "ok"
    /\ (BuilderReturned /\ self.local_mode) =>
          ret.status = "ok" /\ ret.cmd # <<>>

C11_Witness ==
    /\ call.fn = "run"
    /\ pc = "returned"
    /\ ~self.local_mode
    /\ environ.MASTER_ADDR.set
    /\ environ.MASTER_PORT.set
    /\ ~environ.RANK.set
    /\ passed.train_path = ScriptPath
    /\ ret = Raised("KeyError", 0)

----------------------------------------------------------------------------
(* C14: within one run the steps come in the order validate, dispatch,     *)
(* keyword check, build, spawn, wait; the launcher is spawned at most      *)
(* once, with the command that was built; the run returns only after a     *)
(* spawned launcher has exited; an exited launcher is never started again. *)

StepRank(p) ==
    CASE p = "idle" -> 0
      [] p = "dispatch" -> 1
      [] p = "wrapper" -> 2
      [] p = "build" -> 3
      [] p = "execute" -> 4
      [] p = "wait" -> 5
      [] OTHER -> 6

C14_SpawnOnceInOrder ==
    [][(call'.fn = "run" /\ pc # "returned") =>
         /\ StepRank(pc') >= StepRank(pc)
         /\ proc'.spawns <= 1
         /\ proc'.spawns >= proc.spawns
         /\ proc'.spawns > proc.spawns =>
               /\ pc = "execute" /\ pc' = "wait"
               /\ cmd # <<>>
               /\ proc'.argv = cmd
               /\ proc'.state = "running"
         /\ cmd' # cmd => pc = "build" /\ pc' = "execute"
         /\ proc.state = "exited" => proc' = proc
         /\ (pc' = "returned" /\ proc.spawns > 0) =>
               pc = "wait" /\ proc.state = "exited"
         /\ pc' \in {"build", "execute", "wait"} =>
               /\ call'.train_object.t = "str"
               /\ PathExists(fs, call'.train_object.s)
       ]_vars

C14_Witness ==
    /\ call.fn = "run"
    /\ pc = "returned"
    /\ proc.spawns = 1
    /\ proc.state = "exited"
    /\ proc.code = 1
    /\ ret = Raised("ExecutionError", 1)

----------------------------------------------------------------------------
(* C15: the number in the command's "--nnodes=" flag times the number in   *)
(* its "--nproc_per_node=" flag is num_gpus * nnodes, which is at least 1. *)

\* int(c) of one decimal digit
DigitValue(c) == CHOOSE d \in 0..9 : ToString(d) = c

\* int(text) of a string of decimal digits
RECURSIVE ParseNat(_)
ParseNat(text) ==
    IF Len(text) = 0 THEN 0
    ELSE 10 * ParseNat(SubSeq(text, 1, Len(text) - 1))
         + DigitValue(SubSeq(text, Len(text), Len(text)))

HasPrefix(token, prefix) ==
    Len(token) >= Len(prefix) /\ SubSeq(token, 1, Len(prefix)) = prefix

\* the number after prefix in the one token of command that starts with it
FlagValue(command, prefix) ==
    LET i == CHOOSE i \in 1..Len(command) : HasPrefix(command[i], prefix)
    IN  ParseNat(SubSeq(command[i], Len(prefix) + 1, Len(command[i])))

FlagCount(command, prefix) ==
    Cardinality({i \in 1..Len(command) : HasPrefix(command[i], prefix)})

\* the tokens before the entry point
LauncherPart == SubSeq(BuiltCmd, 1, 4 + Len(Topo.args))

C15_TopologyProduct ==
    Built =>
        /\ Len(BuiltCmd) >= 4 + Len(Topo.args)
        /\ FlagCount(LauncherPart, "--nnodes=") = 1
        /\ FlagCount(LauncherPart, "--nproc_per_node=") = 1
        /\ FlagValue(LauncherPart, "--nnodes=")
              * FlagValue(LauncherPart, "--nproc_per_node=")
              = ctor.num_gpus * ctor.nnodes
        /\ FlagValue(LauncherPart, "--nnodes=") =
              (IF self.local_mode THEN 1 ELSE ctor.num_gpus * ctor.nnodes)
        /\ ctor.num_gpus * ctor.nnodes >= 1

C15_Witness ==
    /\ BuiltByRun
    /\ ~self.local_mode
    /\ ctor.num_gpus = 2
    /\ ctor.nnodes = 2
    /\ FlagValue(cmd, "--nnodes=") = 4
    /\ FlagValue(cmd, "--nproc_per_node=") = 1

----------------------------------------------------------------------------
(* C16: run looks at the entry point before anything looks at the keyword  *)
(* arguments: with keyword arguments a non-string entry point still fails  *)
(* with RuntimeError and a missing path with FileNotFoundError, and        *)
(* ValueError is raised only for an existing script path.                  *)

C16_ErrorPrecedence ==
    (call.fn = "run" /\ pc = "returned") =>
        /\ call.train_object.t # "str" => ret = Raised("RuntimeError", 0)
        /\ (call.train_object.t = "str"
                /\ ~PathExists(fs, call.train_object.s)) =>
              ret = Raised("FileNotFoundError", 0)
        /\ ret.exc = "ValueError" =>
              /\ call.train_object.t = "str"
              /\ PathExists(fs, call.train_object.s)
              /\ passed.kwargs # {}

C16_Witness ==
    /\ call.fn = "run"
    /\ pc = "returned"
    /\ call.kwargs # {}
    /\ call.train_object = PyFn("pythagoras")
    /\ ret = Raised("RuntimeError", 0)

----------------------------------------------------------------------------
(* pyspark.ml.util.FunctionPickler, as the tests in test_util.py use it.   *)
(* Its calls read and write files only; the distributor takes no part, so  *)
(* they form a specification of their own over the same variables: fs      *)
(* holds the envelope and script files, call and ret the call in progress. *)

\* the character of text at position i, and what follows it
CharAt(text, i) == SubSeq(text, i, i)
From(text, i) == SubSeq(text, i, Len(text))

\* the first position of text that holds the character stop
IndexOf(text, stop) ==
    CHOOSE i \in 1..Len(text) :
        /\ CharAt(text, i) = stop
        /\ \A j \in 1..(i - 1) : CharAt(text, j) # stop

\* cloudpickle.dumps of one value: a tag, then the value; a function that
\* can be imported is written by its name
DumpsValue(v) ==
    CASE v.t = "int" -> "I" \o ToString(v.i) \o ";"
      [] v.t = "str" -> "S" \o ToString(Len(v.s)) \o ":" \o v.s
      [] v.t = "function" -> "F" \o ToString(Len(v.s)) \o ":" \o v.s
      [] OTHER -> "N"

RECURSIVE DumpsItems(_)
DumpsItems(values) ==
    IF values = <<>> THEN ""
    ELSE DumpsValue(Head(values)) \o DumpsItems(Tail(values))

RECURSIVE DumpsEntries(_)
DumpsEntries(entries) ==
    IF entries = <<>> THEN ""
    ELSE DumpsValue(PyStr(Head(entries).k)) \o DumpsValue(Head(entries).v)
         \o DumpsEntries(Tail(entries))

\* cloudpickle.dump((fn, args, kwargs), f)
DumpsCall(fn, args, kwargs) ==
    "P" \o DumpsValue(fn)
        \o "T" \o ToString(Len(args)) \o ":" \o DumpsItems(args)
        \o "D" \o ToString(Len(kwargs)) \o ":" \o DumpsEntries(kwargs)

\* cloudpickle.loads of one value at the start of text: the value and the
\* text after it
LoadsValue(text) ==
    LET tag == CharAt(text, 1) IN
    CASE tag = "I" ->
            LET stop == IndexOf(text, ";")
            IN  [v |-> PyInt(ParseNat(SubSeq(text, 2, stop - 1))),
                 rest |-> From(text, stop + 1)]
      [] tag = "S" \/ tag = "F" ->
            LET stop == IndexOf(text, ":")
                n == ParseNat(SubSeq(text, 2, stop - 1))
                body == SubSeq(text, stop + 1, stop + n)
            IN  [v |-> IF tag = "S" THEN PyStr(body) ELSE PyFn(body),
                 rest |-> From(text, stop + n + 1)]
      [] OTHER -> [v |-> PyNone, rest |-> From(text, 2)]

RECURSIVE LoadsItems(_, _)
LoadsItems(text, n) ==
    IF n = 0 THEN [vs |-> <<>>, rest |-> text]
    ELSE LET first == LoadsValue(text)
             others == LoadsItems(first.rest, n - 1)
         IN  [vs |-> <<first.v>> \o others.vs, rest |-> others.rest]

RECURSIVE LoadsEntries(_, _)
LoadsEntries(text, n) ==
    IF n = 0 THEN [es |-> <<>>, rest |-> text]
    ELSE LET key == LoadsValue(text)
             val == LoadsValue(key.rest)
             others == LoadsEntries(val.rest, n - 1)
         IN  [es |-> <<[k |-> key.v.s, v |-> val.v]>> \o others.es,
              rest |-> others.rest]

\* fn, args, kwargs = cloudpickle.load(f)
LoadsCall(text) ==
    LET fn == LoadsValue(From(text, 2))
        astop == IndexOf(fn.rest, ":")
        args == LoadsItems(From(fn.rest, astop + 1),
                           ParseNat(SubSeq(fn.rest, 2, astop - 1)))
        kstop == IndexOf(args.rest, ":")
        kwargs == LoadsEntries(From(args.rest, kstop + 1),
                               ParseNat(SubSeq(args.rest, 2, kstop - 1)))
    IN  [fn |-> fn.v, args |-> args.vs, kwargs |-> kwargs.es]

\* open(path, "w") and write: the file holds data, whatever it held before
WriteFile(files, path, data) ==
    {f \in files : f.path # path} \cup {[path |-> path, data |-> data]}
ReadFile(files, path) == (CHOOSE f \in files : f.path = path).data

\* the names a pickle file gets when the caller names none
PickleName(n) == "tmp" \o ToString(n) \o ".pickle"
PickleNames == {PickleName(n) : n \in 1..MaxTempFiles}

\* pickle_fn_and_save, were the keyword arguments left out of the envelope
pickle_fn_and_save_no_kwargs(fn, file_path, save_dir, args, kwargs, files, name) ==
    LET path == IF file_path # "" THEN file_path
                ELSE IF save_dir # "" THEN save_dir \o "/" \o name
                ELSE "/tmp/" \o name
    IN  [path |-> path,
         fs |-> WriteFile(files, path, DumpsCall(fn, args, <<>>))]

\* FunctionPickler.pickle_fn_and_save(fn, file_path, save_dir, *args,
\* **kwargs): the path written and the files afterwards
pickle_fn_and_save(fn, file_path, save_dir, args, kwargs, files, name) ==
    LET path == IF file_path # "" THEN file_path
                ELSE IF save_dir # "" THEN save_dir \o "/" \o name
                ELSE "/tmp/" \o name
    IN  [path |-> path,
         fs |-> WriteFile(files, path, DumpsCall(fn, args, kwargs))]

\* FunctionPickler.get_fn_output(path)
get_fn_output(files, path) == LoadsCall(ReadFile(files, path))

\* the lines of the script that runs a pickled call
fn_run_script_lines(pickled_fn_path, fn_output_save_path) ==
    <<"",
      "from pyspark import cloudpickle",
      "import os",
      "",
      "if __name__ == \"__main__\":",
      "    with open(\"" \o pickled_fn_path \o "\", \"rb\") as f:",
      "        fn, args, kwargs = cloudpickle.load(f)",
      "    output = fn(*args, **kwargs)",
      "    with open(\"" \o fn_output_save_path \o "\", \"wb\") as f:",
      "        cloudpickle.dump(output, f)">>

RECURSIVE JoinLines(_)
JoinLines(lines) ==
    IF lines = <<>> THEN "" ELSE Head(lines) \o "\n" \o JoinLines(Tail(lines))

RECURSIVE Concat(_)
Concat(chunks) ==
    IF chunks = <<>> THEN "" ELSE Head(chunks) \o Concat(Tail(chunks))

\* create_fn_run_script, were the script file opened for appending
create_fn_run_script_appending(pickled_fn_path, fn_output_save_path, script_path, prefix_code, suffix_code, files) ==
    LET code_snippet ==
            JoinLines(fn_run_script_lines(pickled_fn_path, fn_output_save_path))
        before == IF Exists(files, script_path)
                  THEN ReadFile(files, script_path) ELSE ""
        written == (IF prefix_code # "" THEN <<prefix_code>> ELSE <<>>)
                   \o <<code_snippet>>
                   \o (IF suffix_code # "" THEN <<suffix_code>> ELSE <<>>)
    IN  [path |-> script_path,
         fs |-> WriteFile(files, script_path, before \o Concat(written))]

\* FunctionPickler.create_fn_run_script(pickled_fn_path,
\* fn_output_save_path, script_path, prefix_code, suffix_code): the path
\* returned and the files afterwards
create_fn_run_script(pickled_fn_path, fn_output_save_path, script_path, prefix_code, suffix_code, files) ==
    LET code_snippet ==
            JoinLines(fn_run_script_lines(pickled_fn_path, fn_output_save_path))
        written == (IF prefix_code # "" THEN <<prefix_code>> ELSE <<>>)
                   \o <<code_snippet>>
                   \o (IF suffix_code # "" THEN <<suffix_code>> ELSE <<>>)
    IN  [path |-> script_path,
         fs |-> WriteFile(files, script_path, Concat(written))]

----------------------------------------------------------------------------
(* The helpers of TestFunctionPickler.                                     *)

\* _test_function(x, y)
test_function(x, y) == x * x + y * y

TestFunctionName == "TestFunctionPickler._test_function"

\* fn(*args, **kwargs) for fn = _test_function: the parameters x and y are
\* bound by position, then by keyword; a parameter bound twice or not at
\* all, an unknown keyword, or a value that is no number, is a TypeError
CallFn(fn, args, kwargs) ==
    LET params == <<"x", "y">>
        keys == {kwargs[i].k : i \in 1..Len(kwargs)}
        bound(j) == IF j <= Len(args) THEN args[j]
                    ELSE kwargs[CHOOSE i \in 1..Len(kwargs) :
                                    kwargs[i].k = params[j]].v
        wellBound ==
            /\ fn = PyFn(TestFunctionName)
            /\ Len(args) <= Len(params)
            /\ keys = {params[j] : j \in (Len(args) + 1)..Len(params)}
    IN  IF wellBound /\ \A j \in 1..Len(params) : bound(j).t = "int"
        THEN [ok |-> TRUE, v |-> test_function(bound(1).i, bound(2).i)]
        ELSE [ok |-> FALSE, v |-> 0]

\* _create_code_snippet_body(pickled_fn_path, fn_output_save_path)
create_code_snippet_body(pickled_fn_path, fn_output_save_path) ==
    "\nfrom pyspark import cloudpickle\nimport os\n\nif __name__ == \"__main__\":\n    with open(\""
    \o pickled_fn_path
    \o "\", \"rb\") as f:\n        fn, args, kwargs = cloudpickle.load(f)\n    output = fn(*args, **kwargs)\n    with open(\""
    \o fn_output_save_path
    \o "\", \"wb\") as f:\n        cloudpickle.dump(output, f)\n"

\* create_reference_file(body, prefix, suffix, fname), on entry
create_reference_file(body, prefix, suffix, fname, files) ==
    WriteFile(files, fname,
              (IF prefix # "" THEN prefix ELSE "") \o body
              \o (IF suffix # "" THEN suffix ELSE ""))

\* _are_two_files_identical(fpath1, fpath2)
are_two_files_identical(files, fpath1, fpath2) ==
    ReadFile(files, fpath1) = ReadFile(files, fpath2)

\* os.remove(path)
Remove(files, path) == {f \in files : f.path # path}

----------------------------------------------------------------------------
(* The calls of the tests, and the specification they form.                *)

PicklerCall(fn, target, args, kwargs, file_path, save_dir, script) ==
    [fn |-> fn, target |-> target, args |-> args, kwargs |-> kwargs,
     file_path |-> file_path, save_dir |-> save_dir, script |-> script]
NoScript == [pickled_fn_path |-> "", fn_output_save_path |-> "",
             script_path |-> "", prefix_code |-> "", suffix_code |-> ""]
NoPicklerCall == PicklerCall("", PyNone, <<>>, <<>>, "", "", NoScript)

NoPicklerRet == [status |-> "none", path |-> "",
                 fn |-> PyNone, args |-> <<>>, kwargs |-> <<>>]
PicklerReturned(path) ==
    [status |-> "ok", path |-> path,
     fn |-> PyNone, args |-> <<>>, kwargs |-> <<>>]
PicklerLoaded(path, loaded) ==
    [status |-> "ok", path |-> path,
     fn |-> loaded.fn, args |-> loaded.args, kwargs |-> loaded.kwargs]

PickledArgVals == {PyInt(1), PyInt(3), PyStr("I;")}
PickledArgSeqs ==
    UNION {[1..n -> PickledArgVals] : n \in 0..MaxArgs}
PickledKwargs == {<<>>, <<[k |-> "y", v |-> PyInt(13)]>>}
FilePaths == {"", "silly_bear"}
SaveDirs == {"", "silly_goose"}
reference_path == "ref_result_file.py"
test_path == "test_result.py"
fn_out_path == "output.pickled"
prefix_test == "prefix_string = 'This is a prefix string'\n"
suffix_test == "suffix_string = 'this is a suffix string'\n"
ScriptCalls ==
    [pickled_fn_path : {"/tmp/" \o PickleName(1), "silly_bear"},
     fn_output_save_path : {fn_out_path},
     script_path : {test_path},
     prefix_code : {"", prefix_test},
     suffix_code : {"", suffix_test}]

PicklerInit ==
    /\ self = init_distributor(1, 1, TRUE, FALSE, PyNone)
    /\ ctor = [num_gpus |-> 1, nnodes |-> 1]
    /\ environ \in EnvStates
    /\ fs = {}
    /\ pc = "idle"
    /\ call = NoPicklerCall
    /\ passed = NoPassed
    /\ cmd = <<>>
    /\ proc = NoProc
    /\ ret = NoPicklerRet

\* pickled_fn_path = FunctionPickler.pickle_fn_and_save(fn, file_path,
\* save_dir, *args, **kwargs)
PickleFnAndSave ==
    /\ pc = "idle"
    /\ \E args \in PickledArgSeqs, kwargs \in PickledKwargs,
          file_path \in FilePaths, save_dir \in SaveDirs,
          name \in PickleNames :
          LET fn == PyFn(TestFunctionName)
              saved == pickle_fn_and_save(fn, file_path, save_dir,
                                          args, kwargs, fs, name)
          IN  /\ call' = PicklerCall("pickle_fn_and_save", fn, args, kwargs,
                                     file_path, save_dir, NoScript)
              /\ fs' = saved.fs
              /\ ret' = PicklerReturned(saved.path)
    /\ pc' = "returned"
    /\ UNCHANGED <<self, ctor, environ, passed, cmd, proc>>

\* fn, args, kwargs = FunctionPickler.get_fn_output(pickled_fn_path)
GetFnOutput ==
    /\ pc = "returned"
    /\ call.fn = "pickle_fn_and_save"
    /\ ret' = PicklerLoaded(ret.path, get_fn_output(fs, ret.path))
    /\ pc' = "loaded"
    /\ UNCHANGED <<self, ctor, environ, fs, call, passed, cmd, proc>>

\* with self.create_reference_file(body_for_reference, prefix, suffix,
\* fname=reference_path)
CreateReferenceFile ==
    /\ pc = "idle"
    /\ \E script \in ScriptCalls :
          /\ call' = PicklerCall("create_fn_run_script", PyNone, <<>>, <<>>,
                                 "", "", script)
          /\ fs' = create_reference_file(
                       create_code_snippet_body(script.pickled_fn_path,
                                                script.fn_output_save_path),
                       script.prefix_code, script.suffix_code,
                       reference_path, fs)
    /\ pc' = "reference"
    /\ UNCHANGED <<self, ctor, environ, passed, cmd, proc, ret>>

\* executable_file_path = FunctionPickler.create_fn_run_script(...)
CreateFnRunScript ==
    /\ pc = "reference"
    /\ LET script == call.script
           made == create_fn_run_script(script.pickled_fn_path,
                                        script.fn_output_save_path,
                                        script.script_path,
                                        script.prefix_code,
                                        script.suffix_code, fs)
       IN  /\ fs' = made.fs
           /\ ret' = PicklerReturned(made.path)
    /\ pc' = "returned"
    /\ UNCHANGED <<self, ctor, environ, call, passed, cmd, proc>>

\* os.remove of the file the call returned; the reference file goes when
\* its with block ends
RemoveFile ==
    /\ pc \in {"returned", "loaded"}
    /\ fs' = Remove(Remove(fs, ret.path), reference_path)
    /\ pc' = "idle"
    /\ call' = NoPicklerCall
    /\ ret' = NoPicklerRet
    /\ UNCHANGED <<self, ctor, environ, passed, cmd, proc>>

\* a caller that leaves the script where it is: the next call finds it
KeepScript ==
    /\ pc = "returned"
    /\ call.fn = "create_fn_run_script"
    /\ fs' = Remove(fs, reference_path)
    /\ pc' = "idle"
    /\ call' = NoPicklerCall
    /\ ret' = NoPicklerRet
    /\ UNCHANGED <<self, ctor, environ, passed, cmd, proc>>

PicklerNext ==
    \/ PickleFnAndSave
    \/ GetFnOutput
    \/ CreateReferenceFile
    \/ CreateFnRunScript
    \/ RemoveFile
    \/ KeepScript

PicklerSpec == PicklerInit /\ [][PicklerNext]_vars

\* two dicts are equal when they hold the same entries
DictEq(a, b) ==
    {a[i] : i \in 1..Len(a)} = {b[i] : i \in 1..Len(b)}

\* C12: a call envelope written by pickle_fn_and_save and read back from
\* the returned path yields the same callable, the same positional
\* arguments in the same order and the same keyword arguments, so calling
\* the loaded triple gives what calling the original gives; an explicit
\* file path is the path returned.
C12_EnvelopeRoundTrip ==
    (pc = "loaded") =>
        /\ ret.fn = call.target
        /\ ret.args = call.args
        /\ DictEq(ret.kwargs, call.kwargs)
        /\ CallFn(ret.fn, ret.args, ret.kwargs)
               = CallFn(call.target, call.args, call.kwargs)
        /\ Exists(fs, ret.path)
        /\ (call.file_path # "" => ret.path = call.file_path)

C12_Witness ==
    /\ pc = "loaded"
    /\ Len(call.args) = 1
    /\ Len(call.kwargs) = 1
    /\ call.file_path = ""
    /\ call.save_dir # ""
    /\ CallFn(ret.fn, ret.args, ret.kwargs) = [ok |-> TRUE, v |-> 178]

\* C13: the script file create_fn_run_script leaves at script_path holds
\* the prefix when it is not empty, then the fixed body for the two paths,
\* then the suffix when it is not empty, and nothing else: it is
\* byte-identical to the reference file, whatever the file held before, so
\* two calls with the same arguments leave the same bytes.
C13_ScriptContent ==
    (pc = "returned" /\ call.fn = "create_fn_run_script") =>
        LET script == call.script
            body == create_code_snippet_body(script.pickled_fn_path,
                                             script.fn_output_save_path)
        IN  /\ ret.path = script.script_path
            /\ are_two_files_identical(fs, reference_path, ret.path)
            /\ ReadFile(fs, ret.path)
                   = script.prefix_code \o body \o script.suffix_code

C13_Witness ==
    /\ pc = "returned"
    /\ call.fn = "create_fn_run_script"
    /\ call.script.prefix_code # ""
    /\ call.script.suffix_code # ""
    /\ ReadFile(fs, test_path)
           = prefix_test
             \o create_code_snippet_body("silly_bear", fn_out_path)
             \o suffix_test

====
